---- MODULE Spec2Model ----
(***************************************************************************)
(* Model of csurv-export-metadata.py: the export of message metadata from  *)
(* an Elasticsearch cluster to a CSV file with a sliced scroll, NUM_SLICES *)
(* worker threads each running process_slice, and a coordinator            *)
(* (save_message_metadata_to_csv) that writes the header, submits the      *)
(* workers and sums their results.                                         *)
(*                                                                         *)
(* Encoding of the Python values:                                          *)
(*  - a dict (a JSON object) is a function whose domain is a set of        *)
(*    strings; a key lookup that Python answers with KeyError is a test    *)
(*    "k \in DOMAIN d" in the action that performs it;                     *)
(*  - a list is a sequence; a str that the code takes apart (the version   *)
(*    number) is a sequence of one-character strings;                      *)
(*  - hits.total is [scalar |-> n] in the response shape of the engines    *)
(*    before 7 (a JSON number) and [value |-> n, relation |-> "eq"] from 7 *)
(*    on (a JSON object); subscripting a number is Python's TypeError.     *)
(* The engine is the environment: it answers every request with a status   *)
(* and a body chosen by the model.                                         *)
(***************************************************************************)
EXTENDS Integers, Sequences, FiniteSets, TLC

(***************************************************************************)
(* NUM_SLICES and BATCH_SIZE are the settings of lines 44-45, which the    *)
(* program invites its user to change (lines 39-40); the model runs the    *)
(* program with two slices and batches of two documents.                   *)
(***************************************************************************)
NUM_SLICES == 2
BATCH_SIZE == 2

(***************************************************************************)
(* Bounds of the model.                                                    *)
(***************************************************************************)
\* the documents matching the query, over all slices
MaxDocs == 3
\* the responses in which the engine departs from a faithful sliced scroll
MaxFaults == 1

Slices == 0 .. (NUM_SLICES - 1)

(***************************************************************************)
(* Constants of the program.                                               *)
(***************************************************************************)
DOC_TYPE == "message"
ES_KEEP_ALIVE == "1m"
JSON_DOC_TYPE_FILTER == [term |-> [doc_type |-> DOC_TYPE]]
JSON_TRACK_TOTAL_HITS == [track_total_hits |-> TRUE]
JSON_SLICE == [slice |-> [id |-> -1, max |-> NUM_SLICES]]
JSON_SIZE == [size |-> BATCH_SIZE]
JSON_SORT == [sort |-> <<"_doc">>]
JSON_SCROLL_BODY == [scroll |-> ES_KEEP_ALIVE, scroll_id |-> ""]
VERSION_ES5 == <<"5">>
VERSION_ES7 == <<"7">>
\* requests.codes.ok and requests.codes.not_found
codes_ok == 200
codes_not_found == 404
\* Python's None; no str equals it
None == <<"None">>
\* the value of the global es_version before check_es_version assigns it
Unset == <<"unset">>

(***************************************************************************)
(* dict operations.                                                        *)
(***************************************************************************)
EmptyDict == [k \in {} |-> ""]

\* d[k] = v
SetItem(d, k, v) == [y \in DOMAIN d \cup {k} |-> IF y = k THEN v ELSE d[y]]

\* d.update(e): every key of e replaces or extends d
Update(d, e) == [y \in DOMAIN d \cup DOMAIN e |-> IF y \in DOMAIN e THEN e[y] ELSE d[y]]

\* d.get(k, default)
Get(d, k, default) == IF k \in DOMAIN d THEN d[k] ELSE default

(***************************************************************************)
(* check_search_response: "True", "False" or "raise" (raise_for_status     *)
(* raises HTTPError for a 4xx or 5xx status and returns for any other).    *)
(***************************************************************************)
check_search_response(status) ==
  IF status = codes_ok THEN "True"
  ELSE IF status = codes_not_found THEN "False"
  ELSE IF status >= 400 /\ status < 600 THEN "raise"
  ELSE "None"

(***************************************************************************)
(* version_number.split('.')[0]: the characters before the first '.'.      *)
(***************************************************************************)
RECURSIVE split_first(_)
split_first(s) ==
  IF s = <<>> \/ Head(s) = "." THEN <<>>
  ELSE <<Head(s)>> \o split_first(Tail(s))

\* the test of line 144 that guards the "Unsupported ES version" exception
unsupported_version(v) ==
  v = None /\ ~(v = VERSION_ES5 \/ v = VERSION_ES7)

(***************************************************************************)
(* init_query: [exc |-> the exception raised or "", body |-> query_body as *)
(* the call leaves it] (the dict is updated in place, also when the call   *)
(* raises).  The filter of a bool query, when present, is a list.          *)
(***************************************************************************)
\* paginated with the keys the query document already holds left as they are
paginated_keep(query_body) ==
  Update(Update(Update(JSON_SLICE, JSON_SIZE), JSON_SORT), query_body)

paginated(query_body) ==
  Update(Update(Update(query_body, JSON_SLICE), JSON_SIZE), JSON_SORT)

with_filter(query_body, filter) ==
  SetItem(query_body, "query",
          SetItem(query_body["query"], "bool",
                  SetItem(query_body["query"]["bool"], "filter", filter)))

\* init_query with a missing filter list created holding the doc_type filter,
\* to which the filter is then appended as for a list that was present
init_query_twice(query_body, version) ==
  LET q1 == paginated(query_body)
      q2 == Update(q1, JSON_TRACK_TOTAL_HITS)
  IN  IF version = VERSION_ES5 THEN [exc |-> "", body |-> q1]
      ELSE IF "query" \notin DOMAIN q2 THEN [exc |-> "Exception", body |-> q2]
      ELSE IF "bool" \notin DOMAIN q2["query"] THEN [exc |-> "Exception", body |-> q2]
      ELSE LET q3 == IF "filter" \notin DOMAIN q2["query"]["bool"]
                     THEN with_filter(q2, <<JSON_DOC_TYPE_FILTER>>) ELSE q2
           IN  [exc |-> "",
                body |-> with_filter(q3, Append(q3["query"]["bool"]["filter"],
                                                JSON_DOC_TYPE_FILTER))]

init_query(query_body, version) ==
  LET q1 == paginated(query_body)
      q2 == Update(q1, JSON_TRACK_TOTAL_HITS)
  IN  IF version = VERSION_ES5 THEN [exc |-> "", body |-> q1]
      ELSE IF "query" \notin DOMAIN q2 THEN [exc |-> "Exception", body |-> q2]
      ELSE IF "bool" \notin DOMAIN q2["query"] THEN [exc |-> "Exception", body |-> q2]
      ELSE LET q3 == IF "filter" \notin DOMAIN q2["query"]["bool"]
                     THEN with_filter(q2, <<>>) ELSE q2
           IN  [exc |-> "",
                body |-> with_filter(q3, Append(q3["query"]["bool"]["filter"],
                                                JSON_DOC_TYPE_FILTER))]

get_source_fields(query_body) ==
  IF "_source" \in DOMAIN query_body /\ "includes" \in DOMAIN query_body["_source"]
  THEN query_body["_source"]["includes"]
  ELSE <<>>

\* header_fields with the source fields put first
header_fields_swapped(system_fields, source_fields) == source_fields \o system_fields

\* header_fields of save_message_metadata_to_csv
header_fields(system_fields, source_fields) == system_fields \o source_fields

\* field_values with a field the hit lacks left out (no default given to get)
RECURSIVE field_values_present(_, _)
field_values_present(d, fields) ==
  IF fields = <<>> THEN <<>>
  ELSE (IF Head(fields) \in DOMAIN d THEN <<d[Head(fields)]>> ELSE <<>>)
       \o field_values_present(d, Tail(fields))

\* values of one hit in process_slice
RECURSIVE field_values(_, _)
field_values(d, fields) ==
  IF fields = <<>> THEN <<>>
  ELSE <<Get(d, Head(fields), "")>> \o field_values(d, Tail(fields))

row_values(hit, system_fields, source_fields) ==
  (IF Len(system_fields) > 0 THEN field_values(hit, system_fields) ELSE <<>>)
  \o (IF Len(source_fields) > 0 THEN field_values(hit["_source"], source_fields) ELSE <<>>)

(***************************************************************************)
(* The inputs of a run.                                                    *)
(***************************************************************************)
\* SYSTEM_FIELDS as shipped, and the [] that line 41 allows
SystemFieldChoices == {<<"_id">>, <<>>}

\* version numbers the root endpoint may report
VersionNumbers ==
  { <<"5", ".", "6">>, <<"6", ".", "8">>, <<"7", ".", "1", "0">>, <<"8", ".", "0">> }

\* query documents: every combination of a query section, a _source section
\* and pagination keys set by the author of the file
QuerySections ==
  { EmptyDict,
    [query |-> [match_all |-> EmptyDict]],
    [query |-> [bool |-> EmptyDict]],
    [query |-> [bool |-> [must |-> <<[match_all |-> EmptyDict]>>]]],
    [query |-> [bool |-> [filter |-> <<[term |-> [status |-> "sent"]]>>]]] }

SourceSections ==
  { EmptyDict,
    [_source |-> [includes |-> <<"subject">>]],
    [_source |-> [includes |-> <<"date", "subject">>]],
    [_source |-> [excludes |-> <<"body">>]] }

PaginationSections ==
  { EmptyDict,
    [size |-> 7],
    [slice |-> [id |-> 3, max |-> 7], size |-> 7, sort |-> <<"date">>] }

RawQueries ==
  { Update(Update(q, s), p) : q \in QuerySections, s \in SourceSections,
                              p \in PaginationSections }

\* the query documents of the runs of the whole program: no bool query, a bool
\* query with selected fields, a bool query with no field selected
QueryFiles ==
  { [query |-> [match_all |-> EmptyDict], _source |-> [includes |-> <<"date", "subject">>]],
    [query |-> [bool |-> EmptyDict], _source |-> [includes |-> <<"date", "subject">>],
     size |-> 7],
    [query |-> [bool |-> EmptyDict], _source |-> [excludes |-> <<"body">>]] }

\* the version numbers of the engines of those runs
EngineVersions ==
  { <<"5", ".", "6">>, <<"6", ".", "8">>, <<"7", ".", "1", "0">> }

(***************************************************************************)
(* The engine.  Slice i holds the documents 1 .. store[i]; a response to   *)
(* slice i serves the documents after cursor[i].                           *)
(***************************************************************************)
Statuses == {200, 302, 404, 500}

Min(a, b) == IF a < b THEN a ELSE b

RECURSIVE Sum(_, _)
Sum(f, S) == IF S = {} THEN 0
             ELSE LET e == CHOOSE e \in S : TRUE IN f[e] + Sum(f, S \ {e})

\* the splits of at most MaxDocs documents over the slices
Stores == { s \in [Slices -> 0 .. MaxDocs] : Sum(s, Slices) <= MaxDocs }

DocId(i, n) == "d" \o ToString(i) \o "-" \o ToString(n)

\* document n of slice i: some documents lack "subject", the others "date"
Doc(i, n) ==
  [_id |-> DocId(i, n),
   _index |-> "msgs",
   _source |-> IF (i + n) % 2 = 1 THEN [subject |-> "s-" \o DocId(i, n)]
               ELSE [date |-> "t-" \o DocId(i, n)]]

\* hits.total in the shape of the engine's version
total_of(version_number, n) ==
  IF split_first(version_number) \in {<<"5">>, <<"6">>}
  THEN [scalar |-> n]
  ELSE [value |-> n, relation |-> "eq"]

scroll_token(i, n) == "c" \o ToString(i) \o "-" \o ToString(n)

\* the slice whose search context a scroll id names
context_of(scroll_id) ==
  CHOOSE j \in Slices : \E n \in 1 .. (MaxDocs + 1) : scroll_token(j, n) = scroll_id

error_body(status) == [error |-> "reason", status |-> status]

hits_body(total, docs) == [hits |-> [total |-> total, hits |-> docs]]

(***************************************************************************)
(* State.                                                                  *)
(***************************************************************************)
VARIABLES
  \* configuration and inputs
  SYSTEM_FIELDS,    \* the list of line 46
  query_file,       \* the JSON document of the query file
  \* the engine
  version_number,   \* version.number of the root endpoint
  store,            \* store[i]: the documents of slice i
  cursor,           \* cursor[i]: the documents of slice i served so far
  seq,              \* seq[i]: the responses given to slice i
  faults,           \* the unfaithful responses given so far
  search_status,    \* search_status[i]: status answered to the search of slice i, 0 before
  scroll_status,    \* scroll_status[i]: status answered to the last scroll of slice i, 0 before
  \* main and save_message_metadata_to_csv
  pc,               \* position of the main thread
  main_exc,         \* the exception that ended the main thread, "" if none
  es_version,       \* the global es_version
  query_body,       \* query_body of main
  scroll_body,      \* scroll_body of main
  source_fields,    \* source_fields of main
  sink,             \* the output file: "unopened", "open" or "closed"
  output,           \* the rows of the output file, in file order
  origin,           \* origin[r]: <<slice, document>> of row r, <<-1, 0>> for the header
  next_id,          \* id of the submit loop of lines 221-222
  collected,        \* the futures whose result the loop of lines 224-225 has taken
  total_msgs,       \* total_msgs of save_message_metadata_to_csv
  \* the workers: process_slice(slice_id = i)
  wpc,              \* position of worker i
  exc,              \* the exception that ended worker i, "" if none
  wquery,           \* query_body of worker i (its deep copy)
  wscroll,          \* scroll_body of worker i (its deep copy)
  results,          \* results of worker i
  total_hits,       \* total_hits of worker i
  pos,              \* index in hits of the hit the for loop of worker i is at
  slice_msgs,       \* total_msgs of worker i
  searches,         \* searches[i]: search requests sent by worker i
  scrolls           \* scrolls[i]: scroll requests sent by worker i

config_vars == <<SYSTEM_FIELDS, query_file>>
engine_vars == <<version_number, store, cursor, seq, faults, search_status, scroll_status>>
main_vars == <<pc, main_exc, es_version, query_body, scroll_body, source_fields,
               next_id, collected, total_msgs>>
sink_vars == <<sink, output, origin>>
worker_vars == <<wpc, exc, wquery, wscroll, results, total_hits, pos, slice_msgs,
                 searches, scrolls>>
vars == <<config_vars, engine_vars, main_vars, sink_vars, worker_vars>>

\* hits of worker i: results['hits']['hits']
hits(i) == results[i]["hits"]["hits"]

finished(i) == wpc[i] \in {"returned", "raised"}

InitRest ==
  /\ cursor = [i \in Slices |-> 0]
  /\ seq = [i \in Slices |-> 0]
  /\ faults = 0
  /\ search_status = [i \in Slices |-> 0]
  /\ scroll_status = [i \in Slices |-> 0]
  /\ pc = "start"
  /\ main_exc = ""
  /\ es_version = Unset
  /\ query_body = EmptyDict
  /\ scroll_body = EmptyDict
  /\ source_fields = <<>>
  /\ sink = "unopened"
  /\ output = <<>>
  /\ origin = <<>>
  /\ next_id = 0
  /\ collected = {}
  /\ total_msgs = 0
  /\ wpc = [i \in Slices |-> "idle"]
  /\ exc = [i \in Slices |-> ""]
  /\ wquery = [i \in Slices |-> EmptyDict]
  /\ wscroll = [i \in Slices |-> EmptyDict]
  /\ results = [i \in Slices |-> EmptyDict]
  /\ total_hits = [i \in Slices |-> 0]
  /\ pos = [i \in Slices |-> 0]
  /\ slice_msgs = [i \in Slices |-> 0]
  /\ searches = [i \in Slices |-> 0]
  /\ scrolls = [i \in Slices |-> 0]

Init ==
  /\ SYSTEM_FIELDS \in SystemFieldChoices
  /\ query_file \in QueryFiles
  /\ version_number \in EngineVersions
  /\ store \in Stores
  /\ InitRest

(***************************************************************************)
(* main, lines 275-316.                                                    *)
(***************************************************************************)
\* the main thread ends with an exception
MainRaises(e) == pc' = "error" /\ main_exc' = e

\* check_es_version: one GET of the root endpoint
check_es_version ==
  /\ pc = "start"
  /\ \E status \in Statuses, has_version \in BOOLEAN :
       LET body == IF status = codes_ok /\ has_version
                   THEN [version |-> [number |-> version_number]]
                   ELSE error_body(status)
       IN  IF check_search_response(status) = "raise"
           THEN MainRaises("HTTPError") /\ UNCHANGED es_version
           ELSE IF "version" \notin DOMAIN body
           THEN MainRaises("KeyError") /\ UNCHANGED es_version
           ELSE /\ es_version' = split_first(body["version"]["number"])
                /\ IF unsupported_version(es_version')
                   THEN MainRaises("Exception")
                   ELSE pc' = "probed" /\ UNCHANGED main_exc
  /\ UNCHANGED <<config_vars, engine_vars, sink_vars, worker_vars, query_body,
                 scroll_body, source_fields, next_id, collected, total_msgs>>

\* lines 295-296: json.load of the query file
load_query ==
  /\ pc = "probed"
  /\ query_body' = query_file
  /\ pc' = "loaded"
  /\ UNCHANGED <<config_vars, engine_vars, sink_vars, worker_vars, main_exc, es_version,
                 scroll_body, source_fields, next_id, collected, total_msgs>>

\* compile_query with the exception of init_query caught and the run going on
compile_query_ignore ==
  /\ pc = "loaded"
  /\ LET r == init_query(query_body, es_version)
     IN  /\ query_body' = r.body
         /\ pc' = "compiled"
         /\ scroll_body' = JSON_SCROLL_BODY
         /\ UNCHANGED main_exc
  /\ UNCHANGED <<config_vars, engine_vars, sink_vars, worker_vars, es_version,
                 source_fields, next_id, collected, total_msgs>>

\* lines 299-302: init_query, then the scroll body
compile_query ==
  /\ pc = "loaded"
  /\ LET r == init_query(query_body, es_version)
     IN  /\ query_body' = r.body
         /\ IF r.exc # ""
            THEN MainRaises(r.exc) /\ UNCHANGED scroll_body
            ELSE /\ pc' = "compiled"
                 /\ scroll_body' = JSON_SCROLL_BODY
                 /\ UNCHANGED main_exc
  /\ UNCHANGED <<config_vars, engine_vars, sink_vars, worker_vars, es_version,
                 source_fields, next_id, collected, total_msgs>>

\* line 304
select_fields ==
  /\ pc = "compiled"
  /\ source_fields' = get_source_fields(query_body)
  /\ pc' = "fields"
  /\ UNCHANGED <<config_vars, engine_vars, sink_vars, worker_vars, main_exc, es_version,
                 query_body, scroll_body, next_id, collected, total_msgs>>

\* lines 309-310 and 316: no field to save, the export is not called
no_fields ==
  /\ pc = "fields"
  /\ Len(SYSTEM_FIELDS) + Len(source_fields) = 0
  /\ pc' = "done"
  /\ UNCHANGED <<config_vars, engine_vars, sink_vars, worker_vars, main_exc, es_version,
                 query_body, scroll_body, source_fields, next_id, collected, total_msgs>>

(***************************************************************************)
(* save_message_metadata_to_csv, lines 205-234.                            *)
(***************************************************************************)
\* open_sink without the test of line 309
open_sink_unguarded ==
  /\ pc = "fields"
  /\ \E opened \in BOOLEAN :
       IF opened
       THEN sink' = "open" /\ pc' = "header" /\ UNCHANGED main_exc
       ELSE MainRaises("OSError") /\ UNCHANGED sink
  /\ UNCHANGED <<config_vars, engine_vars, worker_vars, output, origin, es_version,
                 query_body, scroll_body, source_fields, next_id, collected, total_msgs>>

\* line 212: open(OUTPUT_FILE, 'w'), which the file system may refuse
open_sink ==
  /\ pc = "fields"
  /\ Len(SYSTEM_FIELDS) + Len(source_fields) # 0
  /\ \E opened \in BOOLEAN :
       IF opened
       THEN sink' = "open" /\ pc' = "header" /\ UNCHANGED main_exc
       ELSE MainRaises("OSError") /\ UNCHANGED sink
  /\ UNCHANGED <<config_vars, engine_vars, worker_vars, output, origin, es_version,
                 query_body, scroll_body, source_fields, next_id, collected, total_msgs>>

\* lines 213-216: the header row
write_header ==
  /\ pc = "header"
  /\ output' = Append(output, header_fields(SYSTEM_FIELDS, source_fields))
  /\ origin' = Append(origin, [slice |-> -1, id |-> ""])
  /\ pc' = "submitting"
  /\ UNCHANGED <<config_vars, engine_vars, worker_vars, sink, main_exc, es_version,
                 query_body, scroll_body, source_fields, next_id, collected, total_msgs>>

\* lines 221-222: executor.submit(process_slice, slice_id=id, ...) with deep
\* copies of query_body and scroll_body; the worker thread starts at once
submit ==
  /\ pc = "submitting"
  /\ wpc' = [wpc EXCEPT ![next_id] = "search"]
  /\ wquery' = [wquery EXCEPT ![next_id] = query_body]
  /\ wscroll' = [wscroll EXCEPT ![next_id] = scroll_body]
  /\ next_id' = next_id + 1
  /\ pc' = IF next_id' = NUM_SLICES THEN "collecting" ELSE "submitting"
  /\ UNCHANGED <<config_vars, engine_vars, sink_vars, main_exc, es_version, query_body,
                 scroll_body, source_fields, collected, total_msgs, exc, results,
                 total_hits, pos, slice_msgs, searches, scrolls>>

\* collect with the exception of a failed future dropped and its count taken as 0
collect_swallow(i) ==
  /\ pc = "collecting"
  /\ i \notin collected
  /\ finished(i)
  /\ total_msgs' = total_msgs + (IF wpc[i] = "returned" THEN total_hits[i] ELSE 0)
  /\ collected' = collected \cup {i}
  /\ UNCHANGED <<pc, main_exc>>
  /\ UNCHANGED <<config_vars, engine_vars, sink_vars, worker_vars, es_version, query_body,
                 scroll_body, source_fields, next_id>>

\* lines 224-225: as_completed hands over a finished future; result() returns
\* what process_slice returned or raises what it raised
collect(i) ==
  /\ pc = "collecting"
  /\ i \notin collected
  /\ finished(i)
  /\ IF wpc[i] = "returned"
     THEN /\ total_msgs' = total_msgs + total_hits[i]
          /\ collected' = collected \cup {i}
          /\ UNCHANGED <<pc, main_exc>>
     ELSE /\ pc' = "unwinding"
          /\ main_exc' = exc[i]
          /\ UNCHANGED <<total_msgs, collected>>
  /\ UNCHANGED <<config_vars, engine_vars, sink_vars, worker_vars, es_version, query_body,
                 scroll_body, source_fields, next_id>>

\* unwind with the executor shut down without waiting for its workers
unwind_nowait ==
  /\ pc = "unwinding"
  /\ sink' = "closed"
  /\ pc' = "error"
  /\ UNCHANGED <<config_vars, engine_vars, worker_vars, output, origin, main_exc,
                 es_version, query_body, scroll_body, source_fields, next_id, collected,
                 total_msgs>>

\* an exception leaves the with blocks: the executor's __exit__ waits for
\* every worker (shutdown(wait=True)), then the file is closed
unwind ==
  /\ pc = "unwinding"
  /\ \A i \in Slices : finished(i)
  /\ sink' = "closed"
  /\ pc' = "error"
  /\ UNCHANGED <<config_vars, engine_vars, worker_vars, output, origin, main_exc,
                 es_version, query_body, scroll_body, source_fields, next_id, collected,
                 total_msgs>>

\* lines 226-234: every result taken, the with blocks end and total_msgs is returned
return_total ==
  /\ pc = "collecting"
  /\ collected = Slices
  /\ sink' = "closed"
  /\ pc' = "saved"
  /\ UNCHANGED <<config_vars, engine_vars, worker_vars, output, origin, main_exc,
                 es_version, query_body, scroll_body, source_fields, next_id, collected,
                 total_msgs>>

\* lines 314-316
main_done ==
  /\ pc = "saved"
  /\ pc' = "done"
  /\ UNCHANGED <<config_vars, engine_vars, sink_vars, worker_vars, main_exc, es_version,
                 query_body, scroll_body, source_fields, next_id, collected, total_msgs>>

(***************************************************************************)
(* The answers of the engine to a request for the next batch of slice j.   *)
(* A faithful answer has status 200, the next min(BATCH_SIZE, remaining)   *)
(* documents, the number of documents of the slice as its total and a      *)
(* scroll id; at most MaxFaults answers of a run are not faithful.  The    *)
(* total of an answer to a scroll request is never read by the program.    *)
(***************************************************************************)
full_batch(j) == Min(BATCH_SIZE, store[j] - cursor[j])

faithful(a, j) ==
  a.status = codes_ok /\ a.served = full_batch(j) /\ a.total = store[j] /\ a.token

\* an unfaithful answer departs in its status, or in one or two of: a short or
\* empty batch, its total (zero, or one off), a missing scroll id
Answers(j, first) ==
  { a \in [status : Statuses, served : 0 .. full_batch(j),
           total : 0 .. (MaxDocs + 1), token : BOOLEAN] :
      /\ faithful(a, j) \/ faults < MaxFaults
      /\ a.status # codes_ok => a.served = 0 /\ a.total = store[j] /\ a.token
      /\ Cardinality({ d \in {"served", "total", "token"} :
                         \/ d = "served" /\ a.served # full_batch(j)
                         \/ d = "total" /\ a.total # store[j]
                         \/ d = "token" /\ ~a.token }) <= 2
      /\ a.total \in {0, store[j] - 1, store[j], store[j] + 1}
      /\ ~first => a.total = store[j] }

answer_body(a, j) ==
  IF a.status = codes_ok
  THEN Update(hits_body(total_of(version_number, a.total),
                        [n \in 1 .. a.served |-> Doc(j, cursor[j] + n)]),
              IF a.token THEN [_scroll_id |-> scroll_token(j, seq[j] + 1)]
              ELSE EmptyDict)
  ELSE error_body(a.status)

\* the engine gives answer a to a request for slice j
Answered(a, j) ==
  /\ cursor' = [cursor EXCEPT ![j] = @ + a.served]
  /\ seq' = [seq EXCEPT ![j] = @ + 1]
  /\ faults' = IF faithful(a, j) THEN faults ELSE faults + 1
  /\ UNCHANGED <<version_number, store>>

(***************************************************************************)
(* process_slice, lines 148-202.  The progress log of lines 187-195 reads  *)
(* the clock and writes to the log only; it is left out.                   *)
(***************************************************************************)
\* worker i ends with exception e, which its future keeps
Raises(i, e) ==
  /\ wpc' = [wpc EXCEPT ![i] = "raised"]
  /\ exc' = [exc EXCEPT ![i] = e]

\* lines 157-160: the total of the first response, read as es_version says
first_total(body, version) ==
  IF "hits" \notin DOMAIN body THEN [exc |-> "KeyError", value |-> 0]
  ELSE LET t == body["hits"]["total"]
       IN  IF version = VERSION_ES5
           THEN IF "scalar" \in DOMAIN t THEN [exc |-> "", value |-> t.scalar]
                ELSE [exc |-> "TypeError", value |-> 0]
           ELSE IF "value" \in DOMAIN t THEN [exc |-> "", value |-> t.value]
                ELSE [exc |-> "TypeError", value |-> 0]

\* more_hits with the total compared against 1
more_hits_off_by_one(total, batch) == total > 1 /\ Len(batch) > 0

\* the test of the while loop, line 166
more_hits(total, batch) == total > 0 /\ Len(batch) > 0

\* Loop with the end of the partition decided by counts: it goes on only
\* while fewer rows than the first total have been written
Loop_by_count(i, total, batch) ==
  IF more_hits(total, batch) /\ slice_msgs[i] < total
  THEN wpc' = [wpc EXCEPT ![i] = "for"] /\ pos' = [pos EXCEPT ![i] = 1]
  ELSE wpc' = [wpc EXCEPT ![i] = "returned"] /\ UNCHANGED pos

\* after a response: into the for loop of line 168 or to the return of line 202
Loop(i, total, batch) ==
  IF more_hits(total, batch)
  THEN wpc' = [wpc EXCEPT ![i] = "for"] /\ pos' = [pos EXCEPT ![i] = 1]
  ELSE wpc' = [wpc EXCEPT ![i] = "returned"] /\ UNCHANGED pos

\* search with process_slice given query_body itself, a reference to the one
\* dict of main, in place of a copy: the write of line 84 lands in that dict,
\* which every launched worker holds
search_shared(i) ==
  /\ wpc[i] = "search"
  /\ query_body' = SetItem(query_body, "slice", SetItem(query_body["slice"], "id", i))
  /\ wquery' = [j \in Slices |-> IF wpc[j] # "idle" THEN query_body' ELSE wquery[j]]
  /\ searches' = [searches EXCEPT ![i] = @ + 1]
  /\ wpc' = [wpc EXCEPT ![i] = "searching"]
  /\ UNCHANGED <<config_vars, engine_vars, sink_vars, search_status, scroll_status, exc,
                 wscroll, results, total_hits, pos, slice_msgs, scrolls, pc, main_exc,
                 es_version, scroll_body, source_fields, next_id, collected, total_msgs>>

\* line 155, get_message_metadata_search, lines 83-92: the slice id is written
\* into the worker's query and the request is posted
search(i) ==
  /\ wpc[i] = "search"
  /\ wquery' = [wquery EXCEPT ![i] = SetItem(@, "slice", SetItem(@["slice"], "id", i))]
  /\ searches' = [searches EXCEPT ![i] = @ + 1]
  /\ wpc' = [wpc EXCEPT ![i] = "searching"]
  /\ UNCHANGED <<config_vars, engine_vars, main_vars, sink_vars, search_status,
                 scroll_status, exc, wscroll, results, total_hits, pos, slice_msgs,
                 scrolls>>

\* lines 92-99: the answer to the search request arrives; lines 157-166
searched(i) ==
  /\ wpc[i] = "searching"
  /\ \E a \in Answers(wquery[i]["slice"]["id"], TRUE) :
       LET j == wquery[i]["slice"]["id"]
           body == answer_body(a, j)
           t == first_total(body, es_version)
       IN  /\ Answered(a, j)
           /\ search_status' = [search_status EXCEPT ![i] = a.status]
           /\ IF check_search_response(a.status) = "raise"
              THEN Raises(i, "HTTPError") /\ UNCHANGED <<results, total_hits, pos>>
              ELSE /\ results' = [results EXCEPT ![i] = body]
                   /\ IF t.exc # ""
                      THEN Raises(i, t.exc) /\ UNCHANGED <<total_hits, pos>>
                      ELSE /\ total_hits' = [total_hits EXCEPT ![i] = t.value]
                           /\ Loop(i, t.value, body["hits"]["hits"])
                           /\ UNCHANGED exc
  /\ UNCHANGED <<config_vars, main_vars, sink_vars, scroll_status, wquery, wscroll,
                 slice_msgs, searches, scrolls>>

\* lines 169-181: the values of the hit are collected and csv_writer.writerow
\* is entered; nothing in the program keeps another worker out of it
begin_row(i) ==
  /\ wpc[i] = "for"
  /\ IF Len(source_fields) > 0 /\ "_source" \notin DOMAIN hits(i)[pos[i]]
     THEN Raises(i, "KeyError")
     ELSE wpc' = [wpc EXCEPT ![i] = "writerow"] /\ UNCHANGED exc
  /\ UNCHANGED <<config_vars, engine_vars, main_vars, sink_vars, wquery, wscroll, results,
                 total_hits, pos, slice_msgs, searches, scrolls>>

\* end_row with the hits of a batch taken from the last to the first
end_row_reversed(i) ==
  /\ wpc[i] = "writerow"
  /\ IF sink # "open"
     THEN Raises(i, "ValueError") /\ UNCHANGED <<output, origin, slice_msgs, pos>>
     ELSE LET hit == hits(i)[Len(hits(i)) + 1 - pos[i]]
          IN  /\ output' = Append(output, row_values(hit, SYSTEM_FIELDS, source_fields))
              /\ origin' = Append(origin, [slice |-> i, id |-> hit["_id"]])
              /\ slice_msgs' = [slice_msgs EXCEPT ![i] = @ + 1]
              /\ pos' = [pos EXCEPT ![i] = @ + 1]
              /\ wpc' = [wpc EXCEPT ![i] = IF pos[i] < Len(hits(i)) THEN "for" ELSE "scroll"]
              /\ UNCHANGED exc
  /\ UNCHANGED <<config_vars, engine_vars, main_vars, sink, wquery, wscroll, results,
                 total_hits, searches, scrolls>>

\* end_row with a row lost when another worker is inside writerow at the time
end_row_lossy(i) ==
  /\ wpc[i] = "writerow"
  /\ IF sink # "open"
     THEN Raises(i, "ValueError") /\ UNCHANGED <<output, origin, slice_msgs, pos>>
     ELSE /\ IF \E j \in Slices \ {i} : wpc[j] = "writerow"
             THEN UNCHANGED <<output, origin>>
             ELSE /\ output' = Append(output, row_values(hits(i)[pos[i]], SYSTEM_FIELDS,
                                                         source_fields))
                  /\ origin' = Append(origin, [slice |-> i, id |-> hits(i)[pos[i]]["_id"]])
          /\ slice_msgs' = [slice_msgs EXCEPT ![i] = @ + 1]
          /\ pos' = [pos EXCEPT ![i] = @ + 1]
          /\ wpc' = [wpc EXCEPT ![i] = IF pos[i] < Len(hits(i)) THEN "for" ELSE "scroll"]
          /\ UNCHANGED exc
  /\ UNCHANGED <<config_vars, engine_vars, main_vars, sink, wquery, wscroll, results,
                 total_hits, searches, scrolls>>

\* lines 181-183: writerow hands the row to the file as one line and returns
end_row(i) ==
  /\ wpc[i] = "writerow"
  /\ IF sink # "open"
     THEN Raises(i, "ValueError") /\ UNCHANGED <<output, origin, slice_msgs, pos>>
     ELSE /\ output' = Append(output, row_values(hits(i)[pos[i]], SYSTEM_FIELDS, source_fields))
          /\ origin' = Append(origin, [slice |-> i, id |-> hits(i)[pos[i]]["_id"]])
          /\ slice_msgs' = [slice_msgs EXCEPT ![i] = @ + 1]
          /\ pos' = [pos EXCEPT ![i] = @ + 1]
          /\ wpc' = [wpc EXCEPT ![i] = IF pos[i] < Len(hits(i)) THEN "for" ELSE "scroll"]
          /\ UNCHANGED exc
  /\ UNCHANGED <<config_vars, engine_vars, main_vars, sink, wquery, wscroll, results,
                 total_hits, searches, scrolls>>

\* scroll with a response without a scroll id taken as the end of the slice
scroll_lenient(i) ==
  /\ wpc[i] = "scroll"
  /\ IF "_scroll_id" \notin DOMAIN results[i]
     THEN wpc' = [wpc EXCEPT ![i] = "returned"] /\ UNCHANGED <<exc, wscroll, scrolls>>
     ELSE /\ wscroll' = [wscroll EXCEPT ![i] = SetItem(@, "scroll_id", results[i]["_scroll_id"])]
          /\ scrolls' = [scrolls EXCEPT ![i] = @ + 1]
          /\ wpc' = [wpc EXCEPT ![i] = "scrolling"]
          /\ UNCHANGED exc
  /\ UNCHANGED <<config_vars, engine_vars, main_vars, sink_vars, search_status,
                 scroll_status, wquery, results, total_hits, pos, slice_msgs, searches>>

\* scroll with the scroll id of the search response sent with every request
scroll_first_id(i) ==
  /\ wpc[i] = "scroll"
  /\ IF "_scroll_id" \notin DOMAIN results[i]
     THEN Raises(i, "KeyError") /\ UNCHANGED <<wscroll, scrolls>>
     ELSE /\ wscroll' = [wscroll EXCEPT ![i] = SetItem(@, "scroll_id",
                                                      scroll_token(context_of(results[i]["_scroll_id"]), 1))]
          /\ scrolls' = [scrolls EXCEPT ![i] = @ + 1]
          /\ wpc' = [wpc EXCEPT ![i] = "scrolling"]
          /\ UNCHANGED exc
  /\ UNCHANGED <<config_vars, engine_vars, main_vars, sink_vars, search_status,
                 scroll_status, wquery, results, total_hits, pos, slice_msgs, searches>>

\* line 185 and lines 197-198, get_message_metadata_scroll, lines 106-115: the
\* scroll id of the last response is written into the worker's scroll body and
\* the request is posted
scroll(i) ==
  /\ wpc[i] = "scroll"
  /\ IF "_scroll_id" \notin DOMAIN results[i]
     THEN Raises(i, "KeyError") /\ UNCHANGED <<wscroll, scrolls>>
     ELSE /\ wscroll' = [wscroll EXCEPT ![i] = SetItem(@, "scroll_id", results[i]["_scroll_id"])]
          /\ scrolls' = [scrolls EXCEPT ![i] = @ + 1]
          /\ wpc' = [wpc EXCEPT ![i] = "scrolling"]
          /\ UNCHANGED exc
  /\ UNCHANGED <<config_vars, engine_vars, main_vars, sink_vars, search_status,
                 scroll_status, wquery, results, total_hits, pos, slice_msgs, searches>>

\* lines 115-122: the answer to the scroll request arrives; the test of line 166
scrolled(i) ==
  /\ wpc[i] = "scrolling"
  /\ \E a \in Answers(context_of(wscroll[i]["scroll_id"]), FALSE) :
       LET j == context_of(wscroll[i]["scroll_id"])
           body == answer_body(a, j)
       IN  /\ Answered(a, j)
           /\ scroll_status' = [scroll_status EXCEPT ![i] = a.status]
           /\ IF check_search_response(a.status) = "raise"
              THEN Raises(i, "HTTPError") /\ UNCHANGED <<results, pos>>
              ELSE /\ results' = [results EXCEPT ![i] = body]
                   /\ IF "hits" \notin DOMAIN body
                      THEN Raises(i, "KeyError") /\ UNCHANGED pos
                      ELSE /\ Loop(i, total_hits[i], body["hits"]["hits"])
                           /\ UNCHANGED exc
  /\ UNCHANGED <<config_vars, main_vars, sink_vars, search_status, wquery, wscroll,
                 total_hits, slice_msgs, searches, scrolls>>

(***************************************************************************)
(* The program.                                                            *)
(***************************************************************************)
Next ==
  \/ check_es_version
  \/ load_query
  \/ compile_query
  \/ select_fields
  \/ no_fields
  \/ open_sink
  \/ write_header
  \/ submit
  \/ \E i \in Slices : collect(i)
  \/ unwind
  \/ return_total
  \/ main_done
  \/ \E i \in Slices : search(i)
  \/ \E i \in Slices : searched(i)
  \/ \E i \in Slices : begin_row(i)
  \/ \E i \in Slices : end_row(i)
  \/ \E i \in Slices : scroll(i)
  \/ \E i \in Slices : scrolled(i)

Spec == Init /\ [][Next]_vars

(***************************************************************************)
(* The start of main alone (version detection, query file, init_query,     *)
(* field selection) on every query document of RawQueries and every        *)
(* version number of VersionNumbers, against an engine with no document.   *)
(***************************************************************************)
(***************************************************************************)
(* The program under fair scheduling: the main thread and each worker      *)
(* thread of the executor take their next step when they can, and the      *)
(* engine answers every request (searched and scrolled are the arrival of  *)
(* an answer, for which requests.get waits).                               *)
(***************************************************************************)
\* a step of the main thread
main ==
  \/ check_es_version
  \/ load_query
  \/ compile_query
  \/ select_fields
  \/ no_fields
  \/ open_sink
  \/ write_header
  \/ submit
  \/ \E i \in Slices : collect(i)
  \/ unwind
  \/ return_total
  \/ main_done

\* a step of the worker thread that runs process_slice for slice i
process_slice(i) ==
  \/ search(i)
  \/ searched(i)
  \/ begin_row(i)
  \/ end_row(i)
  \/ scroll(i)
  \/ scrolled(i)

SpecFair ==
  /\ Spec
  /\ WF_vars(main)
  /\ \A i \in Slices : WF_vars(process_slice(i))

InitCompile ==
  /\ SYSTEM_FIELDS \in SystemFieldChoices
  /\ query_file \in RawQueries
  /\ version_number \in VersionNumbers
  /\ store = [i \in Slices |-> 0]
  /\ InitRest

NextCompile ==
  \/ check_es_version
  \/ load_query
  \/ compile_query
  \/ select_fields

SpecCompile == InitCompile /\ [][NextCompile]_vars

(***************************************************************************)
(* Properties.                                                             *)
(***************************************************************************)
\* rows of the output file written by worker i
rows_of(i) == { r \in 1 .. Len(origin) : origin[r].slice = i }

\* save_message_metadata_to_csv has returned its total to main
exported == pc \in {"saved", "done"} /\ sink = "closed"

\* a status that is neither 2xx nor 404 (0: no answer yet)
bad_status(st) == st # 0 /\ ~(st >= 200 /\ st < 300) /\ st # codes_not_found

\* C1: a partition whose initial search is answered with 404 writes no row,
\* reports zero hits, sends no scroll request, and does not fail the export.
C1_NotFoundIsZeroHits ==
  \A i \in Slices :
    search_status[i] = codes_not_found =>
      /\ wpc[i] = "returned"
      /\ total_hits[i] = 0
      /\ rows_of(i) = {}
      /\ scrolls[i] = 0
      /\ (\A j \in Slices \ {i} : wpc[j] # "raised") => pc \notin {"unwinding", "error"}

\* C2: a partition that gets a status that is neither 2xx nor 404, to its search
\* or to a scroll request, has stopped with an exception, and the export never
\* returns a total, however the other partitions end.
C2_BadStatusFailsExport ==
  \A i \in Slices :
    bad_status(search_status[i]) \/ bad_status(scroll_status[i]) =>
      /\ wpc[i] = "raised"
      /\ ~exported

\* a scroll request answered with 500 after rows were written, the other
\* partitions returned, and the export ended with the error
C2_Witness ==
  \E i \in Slices :
    /\ scroll_status[i] = 500
    /\ rows_of(i) # {}
    /\ \A j \in Slices \ {i} : wpc[j] = "returned"
    /\ pc = "error"
    /\ main_exc = "HTTPError"

\* the documents of the engine
AllDocs == { Doc(i, n) : i \in Slices, n \in 1 .. MaxDocs }

\* the document a data row was written for
doc_of(r) == CHOOSE d \in AllDocs : d["_id"] = origin[r].id

\* the include list as the query file declares it
declared_fields ==
  IF "_source" \in DOMAIN query_file /\ "includes" \in DOMAIN query_file["_source"]
  THEN query_file["_source"]["includes"]
  ELSE <<>>

\* C3: when the engine answers every request faithfully (T documents split over
\* the slices, every status 200) and the export has returned, the sum of the
\* counts of the process_slice calls is T and the file holds, after the header,
\* exactly one row for each of the T documents.
C3_AllDocumentsExported ==
  exported /\ faults = 0 =>
    /\ total_msgs = Sum(store, Slices)
    /\ Sum(total_hits, Slices) = Sum(store, Slices)
    /\ Len(output) = 1 + Sum(store, Slices)
    /\ \A i \in Slices : \A n \in 1 .. store[i] :
         Cardinality({ r \in 2 .. Len(origin) : origin[r].id = DocId(i, n) }) = 1

\* an export of MaxDocs documents out of two non-empty slices has returned
C3_Witness ==
  /\ exported
  /\ faults = 0
  /\ Sum(store, Slices) = MaxDocs
  /\ \A i \in Slices : store[i] > 0
  /\ Len(output) = 1 + MaxDocs

\* C4: every data row has as many values as the header row, in header order:
\* the value of the system field or of the source field of that column, and
\* the empty string where the document lacks the field.
C4_RowWidth ==
  \A r \in 2 .. Len(output) :
    /\ Len(output[r]) = Len(output[1])
    /\ Len(output[r]) = Len(SYSTEM_FIELDS) + Len(source_fields)
    /\ \A c \in 1 .. Len(output[r]) :
         output[r][c] =
           IF c <= Len(SYSTEM_FIELDS)
           THEN (IF output[1][c] \in DOMAIN doc_of(r)
                 THEN doc_of(r)[output[1][c]] ELSE "")
           ELSE (IF output[1][c] \in DOMAIN doc_of(r)["_source"]
                 THEN doc_of(r)["_source"][output[1][c]] ELSE "")

\* a row of three columns with the empty string for a field its document lacks
C4_Witness ==
  \E r \in 2 .. Len(output) :
    /\ Len(output[r]) = 3
    /\ \E c \in 2 .. 3 : output[r][c] = "" /\ output[1][c] \notin DOMAIN doc_of(r)["_source"]
    /\ \E c \in 2 .. 3 : output[r][c] # ""

\* C5: no two workers are inside a row write to the output file at once.
C5_RowWritesExclusive ==
  \A i, j \in Slices : i # j => ~(wpc[i] = "writerow" /\ wpc[j] = "writerow")

\* C6: once the file holds anything, its first row is the header (the system
\* fields, then the source fields in the order the query file declares them),
\* no later row is a header, and no worker is launched before it is written.
C6_HeaderFirstOnce ==
  /\ output # <<>> =>
       /\ output[1] = SYSTEM_FIELDS \o declared_fields
       /\ origin[1].slice = -1
       /\ \A r \in 2 .. Len(origin) : origin[r].slice \in Slices
  /\ \A i \in Slices : wpc[i] # "idle" => Len(output) >= 1

\* a closed file with a header of three columns and two data rows or more
C6_Witness ==
  /\ exported
  /\ Len(output) >= 3
  /\ output[1] = <<"_id", "date", "subject">>

\* init_query has been called (it returned, or raised its exception)
compile_called ==
  /\ es_version # Unset
  /\ pc \notin {"start", "probed", "loaded"}

\* the query file has a bool query under its query key
has_bool == "query" \in DOMAIN query_file /\ "bool" \in DOMAIN query_file["query"]

\* C7: after init_query the slice, size and sort keys of the query hold the
\* settings of the run (slice max NUM_SLICES, size BATCH_SIZE, sort ["_doc"]),
\* whatever the query document held for them and whatever the version.
C7_PaginationKeysFixed ==
  compile_called =>
    /\ {"slice", "size", "sort"} \subseteq DOMAIN query_body
    /\ query_body["slice"] = [id |-> -1, max |-> NUM_SLICES]
    /\ query_body["size"] = BATCH_SIZE
    /\ query_body["sort"] = <<"_doc">>

\* init_query returned for a query document that set all three keys itself
C7_Witness ==
  /\ pc = "compiled"
  /\ {"slice", "size", "sort"} \subseteq DOMAIN query_file
  /\ query_file["size"] # BATCH_SIZE
  /\ query_file["sort"] # <<"_doc">>
  /\ query_body["size"] = BATCH_SIZE

\* C8: for a version other than 5, init_query raises on a query document with
\* no bool query under its query key; on one with a bool query and no filter
\* list it returns, and the filter list then holds the doc_type term filter
\* and nothing else.
C8_BoolWrapperRequired ==
  compile_called /\ es_version # VERSION_ES5 =>
    /\ ~has_bool => pc = "error" /\ main_exc = "Exception"
    /\ has_bool /\ "filter" \notin DOMAIN query_file["query"]["bool"] =>
         /\ pc # "error"
         /\ query_body["query"]["bool"]["filter"] = <<[term |-> [doc_type |-> "message"]]>>

\* init_query returned for version 7 and a bool query with no filter list
C8_Witness ==
  /\ pc = "compiled"
  /\ es_version = VERSION_ES7
  /\ has_bool
  /\ "filter" \notin DOMAIN query_file["query"]["bool"]
  /\ Len(query_body["query"]["bool"]["filter"]) = 1

\* C9: once the version is detected and is neither 5 nor 7, the run has failed,
\* no query is compiled and no search request is sent.
C9_UnsupportedVersionFails ==
  es_version # Unset /\ es_version \notin {VERSION_ES5, VERSION_ES7} =>
    /\ pc = "error"
    /\ query_body = EmptyDict
    /\ \A i \in Slices : searches[i] = 0

\* C10: with no system field and no include list in the query file, the file
\* is never opened or written, no worker is launched, no search or scroll
\* request is sent, and the run ends without an exception unless version
\* detection or init_query raised one.
C10_NoFieldsSkipsExport ==
  Len(SYSTEM_FIELDS) + Len(declared_fields) = 0 =>
    /\ sink = "unopened"
    /\ output = <<>>
    /\ \A i \in Slices : wpc[i] = "idle" /\ searches[i] = 0 /\ scrolls[i] = 0
    /\ pc \in {"start", "probed", "loaded", "compiled", "fields", "done", "error"}
    /\ pc = "error" => ~compile_called \/ main_exc = "Exception"
    /\ pc = "fields" \/ pc = "done" => main_exc = ""

\* a run with nothing to save has ended
C10_Witness ==
  /\ pc = "done"
  /\ Len(SYSTEM_FIELDS) + Len(source_fields) = 0
  /\ es_version = VERSION_ES7
  /\ sink = "unopened"

\* C11: the sink is closed, and the export has finished, only when every
\* launched fetcher has finished, by returning or by raising; no fetcher ever
\* finds the sink closed when it appends a row, and once the sink is closed or
\* the export has ended no row is appended.
C11_CloseAfterAllFetchers ==
  /\ [](sink = "closed" \/ pc = "saved" \/ (pc \in {"done", "error"} /\ sink # "unopened")
          => /\ sink = "closed"
             /\ next_id = NUM_SLICES
             /\ \A i \in Slices : finished(i))
  /\ [](\A i \in Slices : exc[i] # "ValueError")
  /\ [][sink = "closed" \/ pc \in {"saved", "done", "error"}
          => output' = output /\ origin' = origin]_vars

\* the export failed because one partition failed, and another partition
\* wrote its rows to the end before the sink was closed
C11_Witness ==
  /\ pc = "error" /\ sink = "closed"
  /\ \E i, j \in Slices :
       /\ wpc[i] = "raised" /\ main_exc = exc[i]
       /\ wpc[j] = "returned" /\ slice_msgs[j] = store[j] /\ store[j] > 0
       /\ origin[Len(origin)].slice = j

\* the export has launched its workers or is launching them
launching == pc \in {"submitting", "collecting", "unwinding", "saved"} \/ sink = "closed"

\* C12: the coordinator launches one fetcher per slice id 0 .. NUM_SLICES-1,
\* NUM_SLICES in all, each with its own copy of the query and of the scroll
\* body: the search request of fetcher i carries slice id i and otherwise the
\* compiled query, a fetcher's copy shows no write but its own (no slice id
\* before its own search, no scroll id but one of its own slice), and the
\* query and scroll body of main are never changed after compilation.
C12_OwnCopies ==
  /\ [](launching =>
          /\ next_id <= NUM_SLICES
          /\ pc # "submitting" => next_id = NUM_SLICES
          /\ query_body["slice"]["id"] = -1
          /\ scroll_body = JSON_SCROLL_BODY
          /\ \A i \in Slices :
               /\ wpc[i] # "idle" <=> i < next_id
               /\ searches[i] <= 1
               /\ wpc[i] = "search" => searches[i] = 0 /\ wquery[i] = query_body
               /\ wpc[i] \in {"searching"} \/ searches[i] = 1 =>
                    /\ searches[i] = 1
                    /\ wquery[i] = SetItem(query_body, "slice",
                                           SetItem(query_body["slice"], "id", i))
               /\ wpc[i] # "idle" /\ scrolls[i] = 0 => wscroll[i] = scroll_body
               /\ scrolls[i] > 0 =>
                    /\ wscroll[i]["scroll"] = scroll_body["scroll"]
                    /\ context_of(wscroll[i]["scroll_id"]) = i)
  /\ [][compile_called /\ pc # "error"
          => query_body' = query_body /\ scroll_body' = scroll_body]_vars

\* every fetcher has sent its search with its own slice id and a scroll
\* request with a scroll id of its own slice
C12_Witness ==
  /\ next_id = NUM_SLICES
  /\ \A i \in Slices :
       /\ searches[i] = 1 /\ wquery[i]["slice"]["id"] = i
       /\ scrolls[i] > 0 /\ context_of(wscroll[i]["scroll_id"]) = i

\* the header the inputs of the run call for
expected_header == SYSTEM_FIELDS \o declared_fields

\* the row the inputs of the run call for document d
expected_row(d) ==
  [c \in 1 .. Len(expected_header) |->
     IF c <= Len(SYSTEM_FIELDS) THEN Get(d, expected_header[c], "")
     ELSE Get(d["_source"], expected_header[c], "")]

\* the rows the inputs of the run call for, one for each document of the index
expected_rows == { expected_row(Doc(i, n)) : i \in Slices, n \in 1 .. MaxDocs }

\* C13: the file of a successful run is fixed by the inputs of the run (the
\* documents of the index, the query file, SYSTEM_FIELDS and NUM_SLICES) and
\* by nothing the scheduling of the workers decides: whatever the interleaving,
\* its header is the expected header and its data rows are, as a multiset, the
\* expected rows of the documents of the index, each as often as the index
\* holds a document with that row.  Two successful runs on the same inputs
\* thus agree on the header and on the multiset of the rows.
C13_OutputDetermined ==
  exported /\ faults = 0 =>
    /\ output[1] = expected_header
    /\ \A v \in expected_rows \cup { output[r] : r \in 2 .. Len(output) } :
         Cardinality({ r \in 2 .. Len(output) : output[r] = v })
           = Cardinality({ d \in { Doc(i, n) : i \in Slices, n \in 1 .. MaxDocs } :
                             /\ \E i \in Slices : \E n \in 1 .. store[i] : d = Doc(i, n)
                             /\ expected_row(d) = v })

\* a successful run in which the rows of two partitions are interleaved in
\* the file
C13_Witness ==
  /\ exported
  /\ faults = 0
  /\ \E r1, r2, r3 \in 2 .. Len(origin) :
       /\ r1 < r2 /\ r2 < r3
       /\ origin[r1].slice = origin[r3].slice
       /\ origin[r1].slice # origin[r2].slice

\* C14: when the export has returned, the total it returned is the number of
\* data rows written, and so is, partition by partition, the count each
\* process_slice returned, whatever the engine answered.
C14_TotalIsRowsWritten ==
  exported =>
    /\ total_msgs = Len(output) - 1
    /\ \A i \in Slices : total_hits[i] = slice_msgs[i] /\ slice_msgs[i] = Cardinality(rows_of(i))

\* the place of the document of data row r in the order in which the engine
\* returns the documents of its slice
engine_order(r) ==
  CHOOSE n \in 1 .. MaxDocs : DocId(origin[r].slice, n) = origin[r].id

\* C15: under every interleaving the rows of one partition stand in the file
\* in the order in which the engine returned their documents (batch after
\* batch, and within a batch in the order of its hits), with no document of
\* the partition skipped between two rows; the rows of different partitions
\* may stand in any order.
C15_PartitionOrder ==
  \A i \in Slices :
    /\ \A r1, r2 \in rows_of(i) : r1 < r2 => engine_order(r1) < engine_order(r2)
    /\ \A r \in rows_of(i) : engine_order(r) = Cardinality({ q \in rows_of(i) : q <= r })

\* two partitions have written two rows or more each, a row of the one
\* standing between two rows of the other
C15_Witness ==
  \E i, j \in Slices :
    /\ i # j
    /\ Cardinality(rows_of(i)) >= 2
    /\ \E r1, r3 \in rows_of(i) : \E r2 \in rows_of(j) : r1 < r2 /\ r2 < r3
    /\ scrolls[i] > 0

\* C16 as stated: every non-empty batch is followed by a scroll request and
\* only an empty batch ends the partition, so that a fetcher that has
\* returned holds an empty batch and has written every document the engine
\* served to its slice.
C16_EmptyBatchOnly ==
  \A i \in Slices :
    wpc[i] = "returned" => hits(i) = <<>> /\ slice_msgs[i] = cursor[i]

\* C16, amended: for a partition whose first total is positive, every
\* non-empty batch is written whole and followed by a scroll request, also
\* when the rows written have reached or passed the first total, and the
\* partition ends at the first empty batch, also when fewer rows than the
\* first total have been written; a partition whose first total is zero ends
\* after its first response with no row written and no scroll request.  The
\* total read from the first response is never changed afterwards.
C16_EmptyBatchOrZeroTotal ==
  /\ [](\A i \in Slices :
          /\ wpc[i] = "returned" /\ total_hits[i] > 0 =>
               /\ hits(i) = <<>>
               /\ slice_msgs[i] = cursor[i]
               /\ searches[i] + scrolls[i] = seq[i]
          /\ wpc[i] = "returned" /\ total_hits[i] = 0 =>
               slice_msgs[i] = 0 /\ scrolls[i] = 0
          /\ wpc[i] \in {"for", "writerow", "scroll"} => hits(i) # <<>> /\ total_hits[i] > 0)
  /\ [][\A i \in Slices :
          wpc[i] \in {"for", "writerow", "scroll", "scrolling", "returned"}
            => total_hits'[i] = total_hits[i]]_vars

\* a fetcher has returned after it wrote more rows than its first total and
\* sent two scroll requests, and another after it wrote fewer rows than its
\* first total
C16_Witness ==
  \E i \in Slices :
    /\ wpc[i] = "returned"
    /\ total_hits[i] > 0
    /\ slice_msgs[i] > total_hits[i]
    /\ scrolls[i] >= 2

\* a fetcher has returned at an empty batch with fewer rows written than its
\* first total
C16_WitnessFewer ==
  \E i \in Slices :
    /\ wpc[i] = "returned"
    /\ slice_msgs[i] > 0
    /\ slice_msgs[i] < total_hits[i]

\* the requests of partition i the engine has not answered yet: those sent
\* less the answers the engine has given for slice i
outstanding(i) == searches[i] + scrolls[i] - seq[i]

\* C17: a scroll request of a partition carries the scroll id of the last
\* response to that same partition (the seq[i]-th answer for slice i: not an
\* older one, not one of another slice), and a partition has one request
\* outstanding while it waits for an answer and none otherwise, so that a
\* request is sent only after the answer to the one before has arrived.
C17_FreshTokenOneRequest ==
  \A i \in Slices :
    /\ outstanding(i) = IF wpc[i] \in {"searching", "scrolling"} THEN 1 ELSE 0
    /\ wpc[i] = "scrolling" =>
         /\ wscroll[i]["scroll_id"] = scroll_token(i, seq[i])
         /\ wscroll[i]["scroll_id"] = results[i]["_scroll_id"]
    /\ scrolls[i] > 0 /\ wpc[i] # "scrolling" =>
         wscroll[i]["scroll_id"] = scroll_token(i, seq[i] - 1)

\* two partitions wait for the answer to a scroll request at the same time,
\* one of them to its second, each request with the last scroll id of its own
\* partition
C17_Witness ==
  \E i, j \in Slices :
    /\ i # j
    /\ wpc[i] = "scrolling" /\ scrolls[i] = 2 /\ wscroll[i]["scroll_id"] = scroll_token(i, 2)
    /\ wpc[j] = "scrolling" /\ wscroll[j]["scroll_id"] = scroll_token(j, seq[j])

\* the last response to worker i has a non-empty batch and no scroll id
tokenless(i) ==
  /\ "hits" \in DOMAIN results[i]
  /\ hits(i) # <<>>
  /\ "_scroll_id" \notin DOMAIN results[i]

\* C18 as stated: a partition whose last response has a non-empty batch and
\* no scroll id sends no further request, does not return normally (it is
\* still writing the batch, or about to read the scroll id, or has raised
\* KeyError), and the export does not return.
C18_MissingTokenFails ==
  \A i \in Slices :
    tokenless(i) =>
      /\ wpc[i] \in {"for", "writerow", "scroll", "raised"}
      /\ wpc[i] = "raised" => exc[i] = "KeyError"
      /\ outstanding(i) = 0
      /\ ~exported

\* C18, amended: the same for a partition whose first total is positive.
C18_MissingTokenFailsPositiveTotal ==
  \A i \in Slices :
    tokenless(i) /\ total_hits[i] > 0 =>
      /\ wpc[i] \in {"for", "writerow", "scroll", "raised"}
      /\ wpc[i] = "raised" => exc[i] = "KeyError" /\ slice_msgs[i] = cursor[i]
      /\ searches[i] + scrolls[i] = seq[i]
      /\ pc \notin {"saved", "done"}

\* a partition wrote the batch of a response without scroll id and raised
\* KeyError, and the export has failed with it
C18_Witness ==
  \E i \in Slices :
    /\ tokenless(i) /\ total_hits[i] > 0
    /\ wpc[i] = "raised" /\ exc[i] = "KeyError"
    /\ slice_msgs[i] > 0
    /\ pc = "error" /\ main_exc = "KeyError" /\ sink = "closed"

\* init_query was called on the query file and raised
compile_failed == compile_called /\ init_query(query_file, es_version).exc # ""

\* C19: when init_query raises, the run has ended with that exception, and it
\* stays so: the file was never opened and nothing was written, no worker was
\* launched, and no search or scroll request was sent or answered; the request
\* of check_es_version is the only one of the run.
C19_CompileFailureFirst ==
  compile_failed =>
    /\ pc = "error"
    /\ main_exc = init_query(query_file, es_version).exc
    /\ sink = "unopened" /\ output = <<>>
    /\ next_id = 0
    /\ \A i \in Slices :
         wpc[i] = "idle" /\ searches[i] = 0 /\ scrolls[i] = 0 /\ seq[i] = 0

\* a run on a query file without bool wrapper has ended in init_query
C19_Witness ==
  /\ compile_failed
  /\ ~has_bool
  /\ pc = "error"
  /\ es_version \in {VERSION_ES5, VERSION_ES7}

\* C20: under fair scheduling and with every request answered, every fetcher
\* launched eventually finishes, and an export that has begun to launch its
\* fetchers eventually returns its total, unless the engine departed from a
\* faithful answer; a partition never writes more rows than its slice holds
\* and writes no document twice.
C20_ExportReturnsTotal ==
  /\ \A i \in Slices : (wpc[i] # "idle") ~> finished(i)
  /\ (pc = "submitting") ~> (exported \/ faults > 0)
  /\ [](\A i \in Slices :
          /\ slice_msgs[i] <= store[i]
          /\ \A r1, r2 \in rows_of(i) : origin[r1].id = origin[r2].id => r1 = r2)

\* what holds of C20: every run ends, every fetcher launched finishes, and an
\* export that has begun either returns its total or fails after a fetcher
\* raised; no partition writes a document twice or more rows than it holds.
C20_RunEnds ==
  /\ <>[](pc \in {"done", "error"})
  /\ \A i \in Slices : (wpc[i] # "idle") ~> finished(i)
  /\ (pc = "submitting") ~> (exported \/ (pc = "error" /\ \E i \in Slices : wpc[i] = "raised"))
  /\ [](\A i \in Slices :
          /\ slice_msgs[i] <= store[i]
          /\ \A r1, r2 \in rows_of(i) : origin[r1].id = origin[r2].id => r1 = r2)

====
